---- MODULE Spec2Model ----
(***************************************************************************)
(* Project and contract status machines of the offer-hub backend:          *)
(* ProjectService (services/project.service.ts), the project request       *)
(* handlers and the contract request handlers                              *)
(* (controllers/contract.controller.ts), over a relational store.          *)
(*                                                                         *)
(* JavaScript values.  An object is a function from the keys it carries to *)
(* values; a key that is absent is not in the DOMAIN.  A value is <<v>>,   *)
(* or <<>> for undefined.  A string that the code trims is a sequence of   *)
(* one-character strings; identifiers and enum members are TLA+ strings.   *)
(* An Error is its message, a tuple of the message's parts.                *)
(***************************************************************************)
EXTENDS Integers, Sequences, FiniteSets, TLC

VARIABLES projects, contracts, inflight, resp

vars == <<projects, contracts, inflight, resp>>

(***************************************************************************)
(* Bounds of the model.                                                    *)
(***************************************************************************)
MaxProjects == 1
MaxContracts == 1
MaxListed == 3

(***************************************************************************)
(* JavaScript helpers.                                                     *)
(***************************************************************************)
undefined == <<>>
Some(v) == <<v>>
EmptyObject == <<>>

Get(obj, k) == IF k \in DOMAIN obj THEN obj[k] ELSE undefined

truthyText(v) == v # undefined /\ v[1] # <<>>
truthyId(v) == v # undefined /\ v[1] # ""

RECURSIVE trimStart(_)
trimStart(s) == IF s # <<>> /\ Head(s) = " " THEN trimStart(Tail(s)) ELSE s

RECURSIVE trimEnd(_)
trimEnd(s) ==
  IF s # <<>> /\ s[Len(s)] = " " THEN trimEnd(SubSeq(s, 1, Len(s) - 1)) ELSE s

trim(s) == trimEnd(trimStart(s))

(***************************************************************************)
(* types/project.types.ts                                                  *)
(***************************************************************************)
PENDING == "pending"
IN_PROGRESS == "in_progress"
COMPLETED == "completed"
CANCELLED == "cancelled"

ProjectStatus == {PENDING, IN_PROGRESS, COMPLETED, CANCELLED}

\* Mutant: completed is not terminal.
PROJECT_STATUS_TRANSITIONS_Reopen ==
  [s \in ProjectStatus |->
     CASE s = PENDING -> {IN_PROGRESS, CANCELLED}
       [] s = IN_PROGRESS -> {COMPLETED, CANCELLED}
       [] s = COMPLETED -> {IN_PROGRESS}
       [] s = CANCELLED -> {}]

PROJECT_STATUS_TRANSITIONS ==
  [s \in ProjectStatus |->
     CASE s = PENDING -> {IN_PROGRESS, CANCELLED}
       [] s = IN_PROGRESS -> {COMPLETED, CANCELLED}
       [] s = COMPLETED -> {}
       [] s = CANCELLED -> {}]

(***************************************************************************)
(* The store.  The users table is read-only here; the projects table is a  *)
(* sequence of rows in insertion order.  The store assigns id and          *)
(* created_at on insert; an update sets the given columns of the rows      *)
(* whose id matches and leaves the other columns and rows alone.           *)
(***************************************************************************)
users ==
  { [id |-> "u1", is_freelancer |-> FALSE],
    [id |-> "u2", is_freelancer |-> FALSE],
    [id |-> "u3", is_freelancer |-> TRUE] }

UserIds == { u.id : u \in users }

NewProjectId == <<"p1", "p2", "p3", "p4">>

selectById(rows, id) == { rows[i] : i \in { j \in DOMAIN rows : rows[j].id = id } }

single(rowset) == CHOOSE r \in rowset : TRUE

storeInsertProject(rows, values) ==
  Append(rows,
         [id |-> NewProjectId[Len(rows) + 1],
          client_id |-> values.client_id,
          title |-> values.title,
          description |-> values.description,
          category |-> values.category,
          budget |-> values.budget,
          status |-> values.status,
          created_at |-> Len(rows) + 1])

storeUpdate(rows, id, values) ==
  [i \in DOMAIN rows |->
     IF rows[i].id = id
     THEN [f \in DOMAIN rows[i] |->
             IF f \in DOMAIN values THEN values[f][1] ELSE rows[i][f]]
     ELSE rows[i]]

(***************************************************************************)
(* Outcomes of a service call: a returned value or a thrown Error.         *)
(***************************************************************************)
Return(v, rows) == [kind |-> "return", value |-> v, msg |-> <<>>, rows |-> rows]
Throw(m, rows) == [kind |-> "throw", value |-> undefined, msg |-> m, rows |-> rows]

Proceed(existing, rows) ==
  [kind |-> "proceed", value |-> Some(existing), msg |-> <<>>, rows |-> rows]

null == <<>>

TypeErrorIncludes == <<"Cannot read properties of undefined (reading 'includes')">>

(***************************************************************************)
(* services/project.service.ts: ProjectService.createProject               *)
(***************************************************************************)
\* Mutant: the is_freelancer check is missing.
createProject_NoFreelancerCheck(rows, projectData) ==
  LET client_id == projectData.client_id[1]
      user == { u \in users : u.id = client_id }
  IN  IF user = {}
      THEN Throw(<<"User not found">>, rows)
      ELSE LET rows2 == storeInsertProject(rows,
                          [client_id |-> client_id,
                           title |-> trim(projectData.title[1]),
                           description |-> trim(projectData.description[1]),
                           category |-> trim(projectData.category[1]),
                           budget |-> projectData.budget[1],
                           status |-> PENDING])
           IN  Return(Some(rows2[Len(rows2)]), rows2)

\* Mutant: the strings are stored as submitted.
createProject_NoTrim(rows, projectData) ==
  LET client_id == projectData.client_id[1]
      user == { u \in users : u.id = client_id }
  IN  IF user = {}
      THEN Throw(<<"User not found">>, rows)
      ELSE IF single(user).is_freelancer
      THEN Throw(<<"Only clients can create projects">>, rows)
      ELSE LET rows2 == storeInsertProject(rows,
                          [client_id |-> client_id,
                           title |-> projectData.title[1],
                           description |-> projectData.description[1],
                           category |-> projectData.category[1],
                           budget |-> projectData.budget[1],
                           status |-> PENDING])
           IN  Return(Some(rows2[Len(rows2)]), rows2)

createProject(rows, projectData) ==
  LET client_id == projectData.client_id[1]
      user == { u \in users : u.id = client_id }
  IN  IF user = {}
      THEN Throw(<<"User not found">>, rows)
      ELSE IF single(user).is_freelancer
      THEN Throw(<<"Only clients can create projects">>, rows)
      ELSE LET rows2 == storeInsertProject(rows,
                          [client_id |-> client_id,
                           title |-> trim(projectData.title[1]),
                           description |-> trim(projectData.description[1]),
                           category |-> trim(projectData.category[1]),
                           budget |-> projectData.budget[1],
                           status |-> PENDING])
           IN  Return(Some(rows2[Len(rows2)]), rows2)

(***************************************************************************)
(* ProjectService.getProjectById: the row joined with its client, or null. *)
(***************************************************************************)
getProjectById(rows, projectId) ==
  LET found == { r \in selectById(rows, projectId) : r.client_id \in UserIds }
  IN  IF found = {} THEN Return(null, rows) ELSE Return(Some(single(found)), rows)

(***************************************************************************)
(* Numbers.  A JavaScript number is an integer or NaN; arithmetic and      *)
(* comparisons with NaN give NaN and false.  parseInt reads an optional    *)
(* sign and the leading decimal digits of its argument and gives NaN when  *)
(* there is no digit; parseFloat does the same on the query strings used   *)
(* here, which carry no fraction and no exponent.                          *)
(***************************************************************************)
Num(n) == [nan |-> FALSE, n |-> n]
NaN == [nan |-> TRUE, n |-> 0]

truthyNum(v) == ~v.nan /\ v.n # 0
NumLess(a, b) == ~a.nan /\ ~b.nan /\ a.n < b.n
NumSub(a, b) == IF a.nan \/ b.nan THEN NaN ELSE Num(a.n - b.n)
NumAdd(a, b) == IF a.nan \/ b.nan THEN NaN ELSE Num(a.n + b.n)
NumMul(a, b) == IF a.nan \/ b.nan THEN NaN ELSE Num(a.n * b.n)

Digits == <<"0", "1", "2", "3", "4", "5", "6", "7", "8", "9">>
isDigit(c) == \E d \in DOMAIN Digits : Digits[d] = c
digitValue(c) == (CHOOSE d \in DOMAIN Digits : Digits[d] = c) - 1

RECURSIVE leadingDigits(_, _)
leadingDigits(s, acc) ==
  IF s # <<>> /\ isDigit(Head(s))
  THEN leadingDigits(Tail(s), 10 * acc + digitValue(Head(s)))
  ELSE acc

parseInt(s) ==
  LET t == trimStart(s)
      signed == t # <<>> /\ Head(t) \in {"-", "+"}
      body == IF signed THEN Tail(t) ELSE t
  IN  IF body = <<>> \/ ~isDigit(Head(body))
      THEN NaN
      ELSE IF signed /\ Head(t) = "-"
      THEN Num(0 - leadingDigits(body, 0))
      ELSE Num(leadingDigits(body, 0))

parseFloat(s) == parseInt(s)

(***************************************************************************)
(* ProjectService.getAllProjects.  The query joins each project with its   *)
(* client, applies the filters that are supplied, orders by created_at,    *)
(* newest first, and returns the rows at the zero-based positions          *)
(* offset..offset+limit-1 with the exact count of the filtered rows.       *)
(* ilike is the containment of the pattern's text; the texts here are in   *)
(* one case and carry no wildcard.                                         *)
(***************************************************************************)
contains(text, part) ==
  \E i \in 0..Len(text) :
     i + Len(part) <= Len(text) /\ SubSeq(text, i + 1, i + Len(part)) = part

RECURSIVE orderByCreatedAtDesc(_)
orderByCreatedAtDesc(rows) ==
  IF rows = <<>>
  THEN <<>>
  ELSE LET newest == CHOOSE i \in DOMAIN rows :
                        \A j \in DOMAIN rows : rows[j].created_at <= rows[i].created_at
       IN  <<rows[newest]>> \o
             orderByCreatedAtDesc(SelectSeq(rows, LAMBDA r : r.id # rows[newest].id))

storeRange(rows, from, to) ==
  IF from.nan \/ to.nan
  THEN <<>>
  ELSE LET first == IF from.n < 0 THEN 1 ELSE from.n + 1
           last == IF to.n + 1 > Len(rows) THEN Len(rows) ELSE to.n + 1
       IN  SubSeq(rows, first, last)

\* Mutant: the offset is page * limit.
getAllProjects_OffByOnePage(rows, filters) ==
  LET category == Get(filters, "category")
      budget_min == Get(filters, "budget_min")
      budget_max == Get(filters, "budget_max")
      status == Get(filters, "status")
      page == IF Get(filters, "page") = undefined THEN Num(1) ELSE filters.page[1]
      limit == IF Get(filters, "limit") = undefined THEN Num(10) ELSE filters.limit[1]
      joined == SelectSeq(rows, LAMBDA r : r.client_id \in UserIds)
      byCategory == IF truthyText(category)
                    THEN SelectSeq(joined, LAMBDA r : contains(r.category, category[1]))
                    ELSE joined
      byMin == IF budget_min # undefined
               THEN SelectSeq(byCategory, LAMBDA r : ~NumLess(Num(r.budget), budget_min[1])
                                                     /\ ~budget_min[1].nan)
               ELSE byCategory
      byMax == IF budget_max # undefined
               THEN SelectSeq(byMin, LAMBDA r : ~NumLess(budget_max[1], Num(r.budget))
                                                /\ ~budget_max[1].nan)
               ELSE byMin
      byStatus == IF truthyId(status)
                  THEN SelectSeq(byMax, LAMBDA r : r.status = status[1])
                  ELSE byMax
      offset == NumMul(page, limit)
      ranged == storeRange(orderByCreatedAtDesc(byStatus), offset,
                           NumSub(NumAdd(offset, limit), Num(1)))
  IN  Return(Some([projects |-> ranged, total |-> Len(byStatus)]), rows)

getAllProjects(rows, filters) ==
  LET category == Get(filters, "category")
      budget_min == Get(filters, "budget_min")
      budget_max == Get(filters, "budget_max")
      status == Get(filters, "status")
      page == IF Get(filters, "page") = undefined THEN Num(1) ELSE filters.page[1]
      limit == IF Get(filters, "limit") = undefined THEN Num(10) ELSE filters.limit[1]
      joined == SelectSeq(rows, LAMBDA r : r.client_id \in UserIds)
      byCategory == IF truthyText(category)
                    THEN SelectSeq(joined, LAMBDA r : contains(r.category, category[1]))
                    ELSE joined
      byMin == IF budget_min # undefined
               THEN SelectSeq(byCategory, LAMBDA r : ~NumLess(Num(r.budget), budget_min[1])
                                                     /\ ~budget_min[1].nan)
               ELSE byCategory
      byMax == IF budget_max # undefined
               THEN SelectSeq(byMin, LAMBDA r : ~NumLess(budget_max[1], Num(r.budget))
                                                /\ ~budget_max[1].nan)
               ELSE byMin
      byStatus == IF truthyId(status)
                  THEN SelectSeq(byMax, LAMBDA r : r.status = status[1])
                  ELSE byMax
      offset == NumMul(NumSub(page, Num(1)), limit)
      ranged == storeRange(orderByCreatedAtDesc(byStatus), offset,
                           NumSub(NumAdd(offset, limit), Num(1)))
  IN  Return(Some([projects |-> ranged, total |-> Len(byStatus)]), rows)

(***************************************************************************)
(* ProjectService.updateProject.  The method awaits the store twice: the   *)
(* fetch of the existing row, after which the checks run on the fetched    *)
(* copy, and the update.                                                   *)
(***************************************************************************)
\* Mutant: the transition table is not consulted.
updateProjectChecks_SkipTable(rows, projectId, updateData, clientId) ==
  LET found == selectById(rows, projectId)
      existingProject == single(found)
  IN  IF found = {}
      THEN Return(null, rows)
      ELSE IF truthyId(clientId) /\ existingProject.client_id # clientId[1]
      THEN Throw(<<"Unauthorized: You can only update your own projects">>, rows)
      ELSE Proceed(existingProject, rows)

\* Mutant: the status is validated before the ownership.
updateProjectChecks_StatusFirst(rows, projectId, updateData, clientId) ==
  LET found == selectById(rows, projectId)
      existingProject == single(found)
      status == Get(updateData, "status")
  IN  IF found = {}
      THEN Return(null, rows)
      ELSE IF /\ truthyId(status)
              /\ status[1] # existingProject.status
              /\ status[1] \notin PROJECT_STATUS_TRANSITIONS[existingProject.status]
      THEN Throw(<<"Invalid status transition from", existingProject.status,
                   "to", status[1]>>, rows)
      ELSE IF truthyId(clientId) /\ existingProject.client_id # clientId[1]
      THEN Throw(<<"Unauthorized: You can only update your own projects">>, rows)
      ELSE Proceed(existingProject, rows)

\* Mutant: the table is consulted whenever the patch carries a status.
updateProjectChecks_SameStatusChecked(rows, projectId, updateData, clientId) ==
  LET found == selectById(rows, projectId)
      existingProject == single(found)
      status == Get(updateData, "status")
  IN  IF found = {}
      THEN Return(null, rows)
      ELSE IF truthyId(clientId) /\ existingProject.client_id # clientId[1]
      THEN Throw(<<"Unauthorized: You can only update your own projects">>, rows)
      ELSE IF truthyId(status)
              /\ status[1] \notin PROJECT_STATUS_TRANSITIONS[existingProject.status]
      THEN Throw(<<"Invalid status transition from", existingProject.status,
                   "to", status[1]>>, rows)
      ELSE Proceed(existingProject, rows)

updateProjectChecks(rows, projectId, updateData, clientId) ==
  LET found == selectById(rows, projectId)
      existingProject == single(found)
      status == Get(updateData, "status")
  IN  IF found = {}
      THEN Return(null, rows)
      ELSE IF truthyId(clientId) /\ existingProject.client_id # clientId[1]
      THEN Throw(<<"Unauthorized: You can only update your own projects">>, rows)
      ELSE IF truthyId(status) /\ status[1] # existingProject.status
      THEN IF existingProject.status \notin DOMAIN PROJECT_STATUS_TRANSITIONS
           THEN Throw(TypeErrorIncludes, rows)
           ELSE IF status[1] \notin PROJECT_STATUS_TRANSITIONS[existingProject.status]
           THEN Throw(<<"Invalid status transition from", existingProject.status,
                        "to", status[1]>>, rows)
           ELSE Proceed(existingProject, rows)
      ELSE Proceed(existingProject, rows)

TrimmedKeys == {"title", "description", "category"}

\* Mutant: the strings of the patch are written as submitted.
updatedDataOf_NoTrim(updateData) ==
  LET kept == { k \in DOMAIN updateData : updateData[k] # undefined }
  IN  [k \in kept |-> updateData[k]]

updatedDataOf(updateData) ==
  LET kept == { k \in DOMAIN updateData : updateData[k] # undefined }
  IN  [k \in kept |->
         IF k \in TrimmedKeys /\ truthyText(updateData[k])
         THEN Some(trim(updateData[k][1]))
         ELSE updateData[k]]

updateProjectWrite(rows, projectId, updatedData) ==
  LET rows2 == storeUpdate(rows, projectId, updatedData)
      found == selectById(rows2, projectId)
  IN  IF found = {}
      THEN Throw(<<"Failed to update project">>, rows)
      ELSE Return(Some(single(found)), rows2)

updateProject(rows, projectId, updateData, clientId) ==
  LET pre == updateProjectChecks(rows, projectId, updateData, clientId)
  IN  IF pre.kind = "proceed"
      THEN updateProjectWrite(rows, projectId, updatedDataOf(updateData))
      ELSE pre

(***************************************************************************)
(* ProjectService.deleteProject: the fetch and the checks, then the update *)
(* that sets status to cancelled.                                          *)
(***************************************************************************)
\* Mutant: only a terminal project is refused.
deleteProjectChecks_TerminalOnly(rows, projectId, clientId) ==
  LET found == selectById(rows, projectId)
      existingProject == single(found)
  IN  IF found = {}
      THEN Return(Some(FALSE), rows)
      ELSE IF truthyId(clientId) /\ existingProject.client_id # clientId[1]
      THEN Throw(<<"Unauthorized: You can only delete your own projects">>, rows)
      ELSE IF existingProject.status \in {COMPLETED, CANCELLED}
      THEN Throw(<<"Can only delete projects that are still pending">>, rows)
      ELSE Proceed(existingProject, rows)

\* Mutant: the status is checked before the ownership.
deleteProjectChecks_StatusFirst(rows, projectId, clientId) ==
  LET found == selectById(rows, projectId)
      existingProject == single(found)
  IN  IF found = {}
      THEN Return(Some(FALSE), rows)
      ELSE IF existingProject.status # PENDING
      THEN Throw(<<"Can only delete projects that are still pending">>, rows)
      ELSE IF truthyId(clientId) /\ existingProject.client_id # clientId[1]
      THEN Throw(<<"Unauthorized: You can only delete your own projects">>, rows)
      ELSE Proceed(existingProject, rows)

deleteProjectChecks(rows, projectId, clientId) ==
  LET found == selectById(rows, projectId)
      existingProject == single(found)
  IN  IF found = {}
      THEN Return(Some(FALSE), rows)
      ELSE IF truthyId(clientId) /\ existingProject.client_id # clientId[1]
      THEN Throw(<<"Unauthorized: You can only delete your own projects">>, rows)
      ELSE IF existingProject.status # PENDING
      THEN Throw(<<"Can only delete projects that are still pending">>, rows)
      ELSE Proceed(existingProject, rows)

\* Mutant: the update that cancels the project is not issued.
deleteProjectWrite_NoUpdate(rows, projectId) == Return(Some(TRUE), rows)

\* Mutant: the row is removed.
deleteProjectWrite_HardDelete(rows, projectId) ==
  Return(Some(TRUE), SelectSeq(rows, LAMBDA r : r.id # projectId))

deleteProjectWrite(rows, projectId) ==
  Return(Some(TRUE), storeUpdate(rows, projectId, [status |-> Some(CANCELLED)]))

deleteProject(rows, projectId, clientId) ==
  LET pre == deleteProjectChecks(rows, projectId, clientId)
  IN  IF pre.kind = "proceed" THEN deleteProjectWrite(rows, projectId) ELSE pre

(***************************************************************************)
(* The project request handlers.  A handler ends by sending one JSON       *)
(* response (res.status(code).json(...)) or by forwarding the error to     *)
(* next.                                                                   *)
(***************************************************************************)
Json(code, msg, data, rows) ==
  [kind |-> "json", code |-> code, msg |-> msg, data |-> data, rows |-> rows,
   called |-> undefined]
Forward(err, rows) ==
  [kind |-> "next", code |-> 0, msg |-> err, data |-> undefined, rows |-> rows,
   called |-> undefined]

\* The handler reached its call of the service, with these arguments.
Called(r, args) == [r EXCEPT !.called = Some(args)]

MalformedId == "not-a-uuid"
uuidRegexTest(id) == id # MalformedId

InvalidStatusMessage == <<"Invalid status. Must be one of:", ProjectStatus>>

createProjectCatch(error, rows) ==
  IF error = <<"Only clients can create projects">>
  THEN Json(403, <<"Only clients can create projects">>, undefined, rows)
  ELSE IF error = <<"User not found">>
  THEN Json(404, <<"User not found">>, undefined, rows)
  ELSE Forward(error, rows)

createProjectHandler(rows, body) ==
  LET budget == Get(body, "budget")
  IN  IF \/ ~truthyId(Get(body, "client_id"))
         \/ ~truthyText(Get(body, "title"))
         \/ ~truthyText(Get(body, "description"))
         \/ ~truthyText(Get(body, "category"))
         \/ budget = undefined
      THEN Json(400, <<"Missing required fields">>, undefined, rows)
      ELSE IF budget[1] < 0
      THEN Json(400, <<"Budget must be a positive number">>, undefined, rows)
      ELSE LET r == createProject(rows, body)
           IN  Called(IF r.kind = "throw"
                      THEN createProjectCatch(r.msg, r.rows)
                      ELSE Json(201, <<"Project created successfully">>, r.value, r.rows),
                      <<body>>)

ceilDiv(a, b) == (a + b - 1) \div b

getAllProjectsHandler(rows, query) ==
  LET page == IF truthyText(Get(query, "page")) THEN parseInt(query.page[1]) ELSE Num(1)
      limit == IF truthyText(Get(query, "limit")) THEN parseInt(query.limit[1]) ELSE Num(10)
      filters ==
        [category |-> Get(query, "category"),
         budget_min |-> IF truthyText(Get(query, "budget_min"))
                        THEN Some(parseFloat(query.budget_min[1])) ELSE undefined,
         budget_max |-> IF truthyText(Get(query, "budget_max"))
                        THEN Some(parseFloat(query.budget_max[1])) ELSE undefined,
         status |-> Get(query, "status"),
         page |-> Some(page),
         limit |-> Some(limit)]
  IN  IF truthyNum(page) /\ NumLess(page, Num(1))
      THEN Json(400, <<"Page number must be greater than 0">>, undefined, rows)
      ELSE IF truthyNum(limit) /\ (NumLess(limit, Num(1)) \/ NumLess(Num(50), limit))
      THEN Json(400, <<"Limit must be between 1 and 50">>, undefined, rows)
      ELSE IF truthyId(filters.status) /\ filters.status[1] \notin ProjectStatus
      THEN Json(400, InvalidStatusMessage, undefined, rows)
      ELSE LET r == getAllProjects(rows, filters)
               per_page == IF truthyNum(limit) THEN limit.n ELSE 10
           IN  Called(Json(200, <<"Projects retrieved successfully">>,
                           Some([projects |-> r.value[1].projects,
                                 pagination |->
                                   [current_page |-> IF truthyNum(page) THEN page.n ELSE 1,
                                    total_pages |-> ceilDiv(r.value[1].total, per_page),
                                    total_projects |-> r.value[1].total,
                                    per_page |-> per_page]]),
                           rows),
                      <<filters>>)

getProjectByIdHandler(rows, id) ==
  IF ~uuidRegexTest(id)
  THEN Json(400, <<"Invalid project ID format">>, undefined, rows)
  ELSE LET r == getProjectById(rows, id)
       IN  Called(IF r.value = null
                  THEN Json(404, <<"Project not found">>, undefined, rows)
                  ELSE Json(200, <<"Project retrieved successfully">>, r.value, rows),
                  <<id>>)

updateProjectCatch(error, rows) ==
  IF error = <<"Unauthorized: You can only update your own projects">>
  THEN Json(403, <<"You can only update your own projects">>, undefined, rows)
  ELSE IF error # <<>> /\ error[1] = "Invalid status transition from"
  THEN Json(400, error, undefined, rows)
  ELSE Forward(error, rows)

\* Mutant: the budget of the patch is not validated.
updateProjectHandler_NoBudgetCheck(rows, id, body) ==
  LET status == Get(body, "status")
  IN  IF ~uuidRegexTest(id)
      THEN Json(400, <<"Invalid project ID format">>, undefined, rows)
      ELSE IF truthyId(status) /\ status[1] \notin ProjectStatus
      THEN Json(400, InvalidStatusMessage, undefined, rows)
      ELSE LET r == updateProject(rows, id, body, undefined)
           IN  Called(IF r.kind = "throw"
                      THEN updateProjectCatch(r.msg, r.rows)
                      ELSE IF r.value = null
                      THEN Json(404, <<"Project not found">>, undefined, r.rows)
                      ELSE Json(200, <<"Project updated successfully">>, r.value, r.rows),
                      <<id, body>>)

updateProjectHandler(rows, id, body) ==
  LET budget == Get(body, "budget")
      status == Get(body, "status")
  IN  IF ~uuidRegexTest(id)
      THEN Json(400, <<"Invalid project ID format">>, undefined, rows)
      ELSE IF budget # undefined /\ budget[1] < 0
      THEN Json(400, <<"Budget must be a positive number">>, undefined, rows)
      ELSE IF truthyId(status) /\ status[1] \notin ProjectStatus
      THEN Json(400, InvalidStatusMessage, undefined, rows)
      ELSE LET r == updateProject(rows, id, body, undefined)
           IN  Called(IF r.kind = "throw"
                      THEN updateProjectCatch(r.msg, r.rows)
                      ELSE IF r.value = null
                      THEN Json(404, <<"Project not found">>, undefined, r.rows)
                      ELSE Json(200, <<"Project updated successfully">>, r.value, r.rows),
                      <<id, body>>)

deleteProjectCatch(error, rows) ==
  IF error = <<"Unauthorized: You can only delete your own projects">>
  THEN Json(403, <<"You can only delete your own projects">>, undefined, rows)
  ELSE IF error = <<"Can only delete projects that are still pending">>
  THEN Json(400, <<"Can only delete projects that are still pending">>, undefined, rows)
  ELSE Forward(error, rows)

deleteProjectHandler(rows, id) ==
  IF ~uuidRegexTest(id)
  THEN Json(400, <<"Invalid project ID format">>, undefined, rows)
  ELSE LET r == deleteProject(rows, id, undefined)
       IN  Called(IF r.kind = "throw"
                  THEN deleteProjectCatch(r.msg, r.rows)
                  ELSE IF r.value = Some(FALSE)
                  THEN Json(404, <<"Project not found">>, undefined, r.rows)
                  ELSE Json(200, <<"Project deleted successfully">>, undefined, r.rows),
                  <<id>>)

(***************************************************************************)
(* Contracts.  services/contract.service.ts, utils/validation.ts and       *)
(* types/api.type.ts are not among the sources: the service, the escrow    *)
(* table and the constants are modelled from the specification (sections   *)
(* 3, 4.2 and 7).                                                          *)
(***************************************************************************)
HTTP_STATUS ==
  [OK |-> 200, CREATED |-> 201, BAD_REQUEST |-> 400, FORBIDDEN |-> 403,
   NOT_FOUND |-> 404]

CONTRACT_TYPES == {"project", "service"}
ESCROW_STATUSES == {"pending", "funded", "released", "disputed"}
ACTIVE_ESCROW_STATUSES == {"funded", "released", "disputed"}

ESCROW_STATUS_TRANSITIONS ==
  [s \in ESCROW_STATUSES |->
     CASE s = "pending" -> {"funded", "disputed"}
       [] s = "funded" -> {"released", "disputed"}
       [] s = "released" -> {}
       [] s = "disputed" -> {"released"}]

NewContractId == <<"k1", "k2", "k3", "k4">>

storeInsertContract(rows, values) ==
  Append(rows,
         [id |-> NewContractId[Len(rows) + 1],
          contract_type |-> values.contract_type,
          freelancer_id |-> values.freelancer_id,
          client_id |-> values.client_id,
          amount_locked |-> values.amount_locked,
          escrow_status |-> values.escrow_status,
          created_at |-> Len(rows) + 1])

createContract(rows, contractData) ==
  LET contract_type == contractData.contract_type[1]
      freelancer_id == contractData.freelancer_id[1]
      client_id == contractData.client_id[1]
      reference == IF contract_type = "project"
                   THEN Get(contractData, "project_id")
                   ELSE Get(contractData, "service_request_id")
  IN  IF freelancer_id = client_id
      THEN Throw(<<"Freelancer and client cannot be the same user">>, rows)
      ELSE IF ~({freelancer_id, client_id} \subseteq UserIds)
      THEN Throw(<<"Freelancer or client not found">>, rows)
      ELSE IF ~truthyId(reference)
      THEN Throw(<<IF contract_type = "project" THEN "project_id" ELSE "service_request_id",
                   "is required for", contract_type, "contracts">>, rows)
      ELSE LET rows2 == storeInsertContract(rows,
                          [contract_type |-> contract_type,
                           freelancer_id |-> freelancer_id,
                           client_id |-> client_id,
                           amount_locked |-> contractData.amount_locked[1],
                           escrow_status |-> "pending"])
           IN  Return(Some(rows2[Len(rows2)]), rows2)

updateContractStatus(rows, contractId, updateData, userId) ==
  LET found == selectById(rows, contractId)
      contract == single(found)
      target == updateData.escrow_status[1]
  IN  IF found = {}
      THEN Return(null, rows)
      ELSE IF userId \notin {Some(contract.freelancer_id), Some(contract.client_id)}
      THEN Throw(<<"Unauthorized">>, rows)
      ELSE IF target \notin ESCROW_STATUS_TRANSITIONS[contract.escrow_status]
      THEN Throw(<<"Invalid status transition from", contract.escrow_status,
                   "to", target>>, rows)
      ELSE LET rows2 == storeUpdate(rows, contractId, [escrow_status |-> Some(target)])
           IN  Return(Some(single(selectById(rows2, contractId))), rows2)

(***************************************************************************)
(* controllers/contract.controller.ts.  createContractHandler catches what *)
(* the service throws; updateContractStatusHandler has no try/catch, so an *)
(* Error thrown by the service rejects the handler's promise: the handler  *)
(* sends no response and does not call next.                               *)
(***************************************************************************)
Rejected(err, rows) ==
  [kind |-> "rejected", code |-> 0, msg |-> err, data |-> undefined, rows |-> rows,
   called |-> undefined]

createContractCatch(error, rows) ==
  IF error = <<"Freelancer or client not found">>
  THEN Json(HTTP_STATUS.BAD_REQUEST, error, undefined, rows)
  ELSE IF error = <<"Freelancer and client cannot be the same user">>
  THEN Json(HTTP_STATUS.BAD_REQUEST, error, undefined, rows)
  ELSE IF \E i \in DOMAIN error : error[i] = "is required for"
  THEN Json(HTTP_STATUS.BAD_REQUEST, error, undefined, rows)
  ELSE IF error # <<>> /\ error[1] = "Invalid status transition from"
  THEN Json(400, error, undefined, rows)
  ELSE Forward(error, rows)

createContractHandler(rows, body) ==
  LET amount_locked == Get(body, "amount_locked")
  IN  IF \/ ~truthyId(Get(body, "contract_type"))
         \/ ~truthyId(Get(body, "freelancer_id"))
         \/ ~truthyId(Get(body, "client_id"))
         \/ ~truthyText(Get(body, "contract_on_chain_id"))
         \/ amount_locked = undefined
      THEN Json(HTTP_STATUS.BAD_REQUEST, <<"Missing required fields">>, undefined, rows)
      ELSE IF body.contract_type[1] \notin CONTRACT_TYPES
      THEN Json(HTTP_STATUS.BAD_REQUEST,
                <<"contract_type must be 'project' or 'service'">>, undefined, rows)
      ELSE IF amount_locked[1] <= 0
      THEN Json(HTTP_STATUS.BAD_REQUEST,
                <<"amount_locked must be greater than 0">>, undefined, rows)
      ELSE IF Len(trim(body.contract_on_chain_id[1])) = 0
      THEN Json(HTTP_STATUS.BAD_REQUEST,
                <<"contract_on_chain_id cannot be empty">>, undefined, rows)
      ELSE LET r == createContract(rows, body)
           IN  Called(IF r.kind = "throw"
                      THEN createContractCatch(r.msg, r.rows)
                      ELSE Json(HTTP_STATUS.CREATED, <<"Contract created successfully">>,
                                r.value, r.rows),
                      <<body>>)

\* Mutant: every escrow status, pending included, is accepted as a target.
updateContractStatusHandler_AnyStatus(rows, id, body) ==
  LET escrow_status == Get(body, "escrow_status")
      userId == Get(body, "user_id")
  IN  IF ~uuidRegexTest(id)
      THEN Json(400, <<"Invalid contract ID format">>, undefined, rows)
      ELSE IF ~truthyId(escrow_status)
      THEN Json(HTTP_STATUS.BAD_REQUEST, <<"escrow_status is required">>, undefined, rows)
      ELSE IF escrow_status[1] \notin ESCROW_STATUSES
      THEN Json(HTTP_STATUS.BAD_REQUEST,
                <<"escrow_status must be 'funded', 'released', or 'disputed'">>,
                undefined, rows)
      ELSE LET r == updateContractStatus(rows, id, body, userId)
           IN  Called(IF r.kind = "throw"
                      THEN Rejected(r.msg, r.rows)
                      ELSE IF r.value = null
                      THEN Json(HTTP_STATUS.NOT_FOUND, <<"Contract not found">>,
                                undefined, r.rows)
                      ELSE Json(HTTP_STATUS.OK, <<"Contract status updated successfully">>,
                                r.value, r.rows),
                      <<id, body, userId>>)

updateContractStatusHandler(rows, id, body) ==
  LET escrow_status == Get(body, "escrow_status")
      userId == Get(body, "user_id")
  IN  IF ~uuidRegexTest(id)
      THEN Json(400, <<"Invalid contract ID format">>, undefined, rows)
      ELSE IF ~truthyId(escrow_status)
      THEN Json(HTTP_STATUS.BAD_REQUEST, <<"escrow_status is required">>, undefined, rows)
      ELSE IF escrow_status[1] \notin ACTIVE_ESCROW_STATUSES
      THEN Json(HTTP_STATUS.BAD_REQUEST,
                <<"escrow_status must be 'funded', 'released', or 'disputed'">>,
                undefined, rows)
      ELSE LET r == updateContractStatus(rows, id, body, userId)
           IN  Called(IF r.kind = "throw"
                      THEN Rejected(r.msg, r.rows)
                      ELSE IF r.value = null
                      THEN Json(HTTP_STATUS.NOT_FOUND, <<"Contract not found">>,
                                undefined, r.rows)
                      ELSE Json(HTTP_STATUS.OK, <<"Contract status updated successfully">>,
                                r.value, r.rows),
                      <<id, body, userId>>)

(***************************************************************************)
(* Requests.  The inputs are drawn from small sets: bodies of POST         *)
(* /projects, and patches of one key, or of a status and a title.  A JSON  *)
(* body carries no undefined value; an UpdateProjectDTO built by a caller  *)
(* of the service may.                                                     *)
(***************************************************************************)
without(obj, k) == [x \in DOMAIN obj \ {k} |-> obj[x]]

CreateBody(c, b) ==
  [client_id |-> Some(c), title |-> Some(<<" ", "a">>),
   description |-> Some(<<"d", " ">>), category |-> Some(<<" ", "c">>),
   budget |-> Some(b)]

CreateBodies ==
  { CreateBody(c, b) : c \in {"u1", "u3", "u9"}, b \in {-1, 0} }
    \cup { without(CreateBody("u1", 0), k) : k \in DOMAIN CreateBody("u1", 0) }
    \cup { [CreateBody("u1", 0) EXCEPT !.title = Some(<<>>)] }

PatchKeys == {"title", "description", "category", "budget", "status"}

JsonValues(k) ==
  CASE k = "title" -> {Some(<<" ", "b">>)}
    [] k = "description" -> {Some(<<" ", "d">>)}
    [] k = "category" -> {Some(<<"c", " ">>)}
    [] k = "budget" -> {Some(-1), Some(7)}
    [] k = "status" -> {Some(st) : st \in ProjectStatus \cup {"archived"}}

\* What UpdateProjectDTO declares: optional fields, status a ProjectStatus.
DtoValues(k) ==
  CASE k = "title" -> {Some(<<" ", "b">>), undefined}
    [] k = "description" -> {Some(<<" ", "d">>)}
    [] k = "category" -> {Some(<<"c", " ">>)}
    [] k = "budget" -> {Some(7)}
    [] k = "status" -> {Some(st) : st \in ProjectStatus} \cup {undefined}

\* Patches that carry a status and a title.
StatusAndTitle ==
  { [status |-> Some(st), title |-> Some(<<" ", "b">>)] : st \in ProjectStatus }

\* What JSON can carry: no undefined value.
JsonPatches ==
  {EmptyObject} \cup UNION { { (k :> v) : v \in JsonValues(k) } : k \in PatchKeys }
                \cup StatusAndTitle

DtoPatches ==
  {EmptyObject} \cup UNION { { (k :> v) : v \in DtoValues(k) } : k \in PatchKeys }
                \cup StatusAndTitle

RequestIds == { NewProjectId[i] : i \in 1..MaxProjects } \cup {MalformedId}
ServiceIds == { NewProjectId[i] : i \in 1..MaxProjects }
Principals == {"u1", "u2"}
ClientIdArgs == {undefined, Some("u1"), Some("u2")}

\* The row a request's fetch finds, if any.
fetched(rows, id) ==
  IF selectById(rows, id) = {} THEN undefined ELSE Some(single(selectById(rows, id)))

NoResponse ==
  [layer |-> "none", op |-> "none", id |-> "", body |-> EmptyObject,
   clientId |-> undefined, principal |-> "", kind |-> "none", code |-> 0,
   msg |-> <<>>, data |-> undefined, before |-> <<>>, seen |-> undefined,
   called |-> undefined]

HttpResponse(op, id, body, principal, r, before) ==
  [layer |-> "http", op |-> op, id |-> id, body |-> body, clientId |-> undefined,
   principal |-> principal, kind |-> r.kind, code |-> r.code, msg |-> r.msg,
   data |-> r.data, before |-> before, seen |-> fetched(before, id),
   called |-> r.called]

ServiceResult(op, id, body, clientId, r, before, seen) ==
  [layer |-> "service", op |-> op, id |-> id, body |-> body, clientId |-> clientId,
   principal |-> "", kind |-> r.kind, code |-> 0, msg |-> r.msg,
   data |-> r.value, before |-> before, seen |-> seen, called |-> undefined]

\* Two requests in flight at once.
Procs == {"A", "B"}

Idle ==
  [pc |-> "idle", op |-> "none", id |-> "", body |-> EmptyObject,
   clientId |-> undefined, seen |-> undefined]

Init ==
  /\ projects = <<>>
  /\ contracts = <<>>
  /\ inflight = [p \in Procs |-> Idle]
  /\ resp = NoResponse

(***************************************************************************)
(* The HTTP requests on projects, each handled from its arrival to its     *)
(* response with no other request in between.                              *)
(***************************************************************************)
CreateProjectRequest(body) ==
  \E r \in {createProjectHandler(projects, body)} :
      /\ Len(r.rows) <= MaxProjects
      /\ projects' = r.rows
      /\ resp' = HttpResponse("createProject", "", body, "", r, projects)
      /\ UNCHANGED <<contracts, inflight>>

GetProjectByIdRequest(id) ==
  \E r \in {getProjectByIdHandler(projects, id)} :
      /\ projects' = r.rows
      /\ resp' = HttpResponse("getProjectById", id, EmptyObject, "", r, projects)
      /\ UNCHANGED <<contracts, inflight>>

UpdateProjectRequest(id, body, principal) ==
  \E r \in {updateProjectHandler(projects, id, body)} :
      /\ projects' = r.rows
      /\ resp' = HttpResponse("updateProject", id, body, principal, r, projects)
      /\ UNCHANGED <<contracts, inflight>>

DeleteProjectRequest(id, principal) ==
  \E r \in {deleteProjectHandler(projects, id)} :
      /\ projects' = r.rows
      /\ resp' = HttpResponse("deleteProject", id, EmptyObject, principal, r, projects)
      /\ UNCHANGED <<contracts, inflight>>

Next ==
  \/ \E body \in CreateBodies : CreateProjectRequest(body)
  \/ \E id \in RequestIds : GetProjectByIdRequest(id)
  \/ \E id \in RequestIds, body \in JsonPatches, principal \in Principals :
        UpdateProjectRequest(id, body, principal)
  \/ \E id \in RequestIds, principal \in Principals :
        DeleteProjectRequest(id, principal)

Spec == Init /\ [][Next]_vars

(***************************************************************************)
(* Calls of the service by a caller that may pass the optional clientId,   *)
(* each run from its first await to its return with no other call in       *)
(* between.                                                                *)
(***************************************************************************)
CreateDtos == { CreateBody(c, 0) : c \in {"u1", "u3", "u9"} }

CreateProjectCall(projectData) ==
  \E r \in {createProject(projects, projectData)} :
      /\ Len(r.rows) <= MaxProjects
      /\ projects' = r.rows
      /\ resp' = ServiceResult("createProject", "", projectData, undefined, r,
                               projects, undefined)
      /\ UNCHANGED <<contracts, inflight>>

GetProjectByIdCall(id) ==
  \E r \in {getProjectById(projects, id)} :
      /\ projects' = r.rows
      /\ resp' = ServiceResult("getProjectById", id, EmptyObject, undefined, r,
                               projects, fetched(projects, id))
      /\ UNCHANGED <<contracts, inflight>>

UpdateProjectCall(id, updateData, clientId) ==
  \E r \in {updateProject(projects, id, updateData, clientId)} :
      /\ projects' = r.rows
      /\ resp' = ServiceResult("updateProject", id, updateData, clientId, r,
                               projects, fetched(projects, id))
      /\ UNCHANGED <<contracts, inflight>>

DeleteProjectCall(id, clientId) ==
  \E r \in {deleteProject(projects, id, clientId)} :
      /\ projects' = r.rows
      /\ resp' = ServiceResult("deleteProject", id, EmptyObject, clientId, r,
                               projects, fetched(projects, id))
      /\ UNCHANGED <<contracts, inflight>>

SvcNext ==
  \/ \E projectData \in CreateDtos : CreateProjectCall(projectData)
  \/ \E id \in ServiceIds : GetProjectByIdCall(id)
  \/ \E id \in ServiceIds, updateData \in DtoPatches, clientId \in ClientIdArgs :
        UpdateProjectCall(id, updateData, clientId)
  \/ \E id \in ServiceIds, clientId \in ClientIdArgs : DeleteProjectCall(id, clientId)

SvcSpec == Init /\ [][SvcNext]_vars

(***************************************************************************)
(* Concurrent calls.  Each of updateProject and deleteProject awaits the   *)
(* store twice, and other requests run between the two awaits: the fetch   *)
(* with the checks on the fetched row is one step, the update another.     *)
(***************************************************************************)
StatusPatches == { o \in DtoPatches : DOMAIN o = {"status"} /\ o.status # undefined }

BeginUpdate(p, id, updateData, clientId) ==
  \E r \in {updateProjectChecks(projects, id, updateData, clientId)} :
      /\ inflight[p].pc = "idle"
      /\ IF r.kind = "proceed"
         THEN /\ inflight' = [inflight EXCEPT ![p] =
                     [pc |-> "write", op |-> "updateProject", id |-> id,
                      body |-> updateData, clientId |-> clientId, seen |-> r.value]]
              /\ UNCHANGED resp
         ELSE /\ resp' = ServiceResult("updateProject", id, updateData, clientId, r,
                                       projects, fetched(projects, id))
              /\ UNCHANGED inflight
      /\ UNCHANGED <<projects, contracts>>

FinishUpdate(p) ==
  \E r \in {updateProjectWrite(projects, inflight[p].id, updatedDataOf(inflight[p].body))} :
      /\ inflight[p].pc = "write"
      /\ inflight[p].op = "updateProject"
      /\ projects' = r.rows
      /\ resp' = ServiceResult("updateProject", inflight[p].id, inflight[p].body,
                               inflight[p].clientId, r, projects, inflight[p].seen)
      /\ inflight' = [inflight EXCEPT ![p] = Idle]
      /\ UNCHANGED contracts

BeginDelete(p, id, clientId) ==
  \E r \in {deleteProjectChecks(projects, id, clientId)} :
      /\ inflight[p].pc = "idle"
      /\ IF r.kind = "proceed"
         THEN /\ inflight' = [inflight EXCEPT ![p] =
                     [pc |-> "write", op |-> "deleteProject", id |-> id,
                      body |-> EmptyObject, clientId |-> clientId, seen |-> r.value]]
              /\ UNCHANGED resp
         ELSE /\ resp' = ServiceResult("deleteProject", id, EmptyObject, clientId, r,
                                       projects, fetched(projects, id))
              /\ UNCHANGED inflight
      /\ UNCHANGED <<projects, contracts>>

FinishDelete(p) ==
  \E r \in {deleteProjectWrite(projects, inflight[p].id)} :
      /\ inflight[p].pc = "write"
      /\ inflight[p].op = "deleteProject"
      /\ projects' = r.rows
      /\ resp' = ServiceResult("deleteProject", inflight[p].id, EmptyObject,
                               inflight[p].clientId, r, projects, inflight[p].seen)
      /\ inflight' = [inflight EXCEPT ![p] = Idle]
      /\ UNCHANGED contracts

RaceNext ==
  \/ \E projectData \in CreateDtos : CreateProjectCall(projectData)
  \/ \E p \in Procs, id \in ServiceIds, updateData \in StatusPatches :
        BeginUpdate(p, id, updateData, undefined)
  \/ \E p \in Procs : FinishUpdate(p)
  \/ \E p \in Procs, id \in ServiceIds : BeginDelete(p, id, undefined)
  \/ \E p \in Procs : FinishDelete(p)

RaceSpec == Init /\ [][RaceNext]_vars

(***************************************************************************)
(* The HTTP requests on contracts, one at a time.                          *)
(***************************************************************************)
ContractBody(t, f, c, a) ==
  [contract_type |-> Some(t), freelancer_id |-> Some(f), client_id |-> Some(c),
   contract_on_chain_id |-> Some(<<"0", "x">>), amount_locked |-> Some(a),
   project_id |-> Some("p1")]

ContractBodies ==
  { ContractBody("project", f, c, a) : f \in {"u3", "u9"}, c \in {"u1", "u3"}, a \in {0, 10} }
    \cup { ContractBody("service", "u3", "u1", 10), ContractBody("lease", "u3", "u1", 10),
           without(ContractBody("project", "u3", "u1", 10), "project_id"),
           without(ContractBody("project", "u3", "u1", 10), "client_id"),
           [ContractBody("project", "u3", "u1", 10) EXCEPT
              !.contract_on_chain_id = Some(<<" ">>)] }

StatusBodies ==
  { [escrow_status |-> Some(st), user_id |-> Some(u)] :
      st \in ESCROW_STATUSES \cup {"bogus"}, u \in {"u1", "u2", "u3"} }
    \cup { [user_id |-> Some(u)] : u \in {"u1", "u2"} }
    \cup { [escrow_status |-> Some(st)] : st \in ACTIVE_ESCROW_STATUSES }

ContractRequestIds == { NewContractId[i] : i \in 1..MaxContracts } \cup {MalformedId}

CreateContractRequest(body) ==
  \E r \in {createContractHandler(contracts, body)} :
      /\ Len(r.rows) <= MaxContracts
      /\ contracts' = r.rows
      /\ resp' = HttpResponse("createContract", "", body, "", r, contracts)
      /\ UNCHANGED <<projects, inflight>>

UpdateContractStatusRequest(id, body) ==
  \E r \in {updateContractStatusHandler(contracts, id, body)} :
      /\ contracts' = r.rows
      /\ resp' = HttpResponse("updateContractStatus", id, body, "", r, contracts)
      /\ UNCHANGED <<projects, inflight>>

ContractNext ==
  \/ \E body \in ContractBodies : CreateContractRequest(body)
  \/ \E id \in ContractRequestIds, body \in StatusBodies :
        UpdateContractStatusRequest(id, body)

ContractSpec == Init /\ [][ContractNext]_vars

(***************************************************************************)
(* A store that already holds a project whose status is no key of          *)
(* PROJECT_STATUS_TRANSITIONS (the column is a string the service casts to *)
(* ProjectStatus), under the HTTP requests.                                *)
(***************************************************************************)
LegacyRow ==
  [id |-> NewProjectId[1], client_id |-> "u1", title |-> <<"a">>,
   description |-> <<"d">>, category |-> <<"c">>, budget |-> 0,
   status |-> "archived", created_at |-> 1]

LegacyInit ==
  /\ projects = <<LegacyRow>>
  /\ contracts = <<>>
  /\ inflight = [p \in Procs |-> Idle]
  /\ resp = NoResponse

LegacySpec == LegacyInit /\ [][Next]_vars

(***************************************************************************)
(* Listing.  The table is any table of up to MaxListed projects of client  *)
(* u1, in insertion order, that creations, updates and deletions can       *)
(* leave; GET /projects and calls of getAllProjects read it.               *)
(***************************************************************************)
ListedRow(i, budget, status) ==
  [id |-> NewProjectId[i], client_id |-> "u1", title |-> <<"a">>,
   description |-> <<"d">>, category |-> <<"c">>, budget |-> budget,
   status |-> status, created_at |-> i]

ListedTables ==
  UNION { { [i \in 1..n |-> ListedRow(i, f[i][1], f[i][2])] :
              f \in [1..n -> {100, 600} \X {PENDING, CANCELLED}] } : n \in 0..MaxListed }

\* Query strings of GET /projects.
ListQueries ==
  {EmptyObject}
    \cup { [page |-> Some(pg)] : pg \in {<<"0">>, <<"-", "1">>, <<"2">>, <<"x">>} }
    \cup { [limit |-> Some(l)] : l \in {<<"0">>, <<"-", "1">>, <<"1">>, <<"5", "1">>} }
    \cup { [page |-> Some(<<"2">>), limit |-> Some(<<"1">>)],
           [page |-> Some(<<"0">>), limit |-> Some(<<"2">>)],
           [status |-> Some(PENDING)], [status |-> Some("archived")],
           [budget_min |-> Some(<<"1", "0", "0">>), budget_max |-> Some(<<"5", "0", "0">>)],
           [category |-> Some(<<"c">>)] }

\* What ProjectFilters declares: every field optional.
FilterChoices ==
  { EmptyObject,
    [budget_min |-> Some(Num(100)), budget_max |-> Some(Num(500))],
    [budget_max |-> Some(Num(100))],
    [budget_min |-> Some(Num(600))],
    [status |-> Some(PENDING)],
    [budget_min |-> Some(Num(100)), budget_max |-> Some(Num(600)),
     status |-> Some(CANCELLED)],
    [category |-> Some(<<"x">>)] }

PageChoices ==
  { [limit |-> Some(Num(l))] : l \in {1, 2} }
    \cup { [page |-> Some(Num(pg)), limit |-> Some(Num(l))] : pg \in {2, 3}, l \in {1, 2} }

ListFilters ==
  { f @@ pl : f \in FilterChoices, pl \in PageChoices }
    \cup { EmptyObject, [page |-> Some(Num(2))], [page |-> undefined, limit |-> undefined] }

ListInit ==
  /\ projects \in ListedTables
  /\ contracts = <<>>
  /\ inflight = [p \in Procs |-> Idle]
  /\ resp = NoResponse

GetAllProjectsRequest(query) ==
  \E r \in {getAllProjectsHandler(projects, query)} :
      /\ projects' = r.rows
      /\ resp' = HttpResponse("getAllProjects", "", query, "", r, projects)
      /\ UNCHANGED <<contracts, inflight>>

GetAllProjectsCall(filters) ==
  \E r \in {getAllProjects(projects, filters)} :
      /\ projects' = r.rows
      /\ resp' = ServiceResult("getAllProjects", "", filters, undefined, r,
                               projects, undefined)
      /\ UNCHANGED <<contracts, inflight>>

ListNext ==
  \/ \E query \in ListQueries : GetAllProjectsRequest(query)
  \/ \E filters \in ListFilters : GetAllProjectsCall(filters)

ListSpec == ListInit /\ [][ListNext]_vars

(***************************************************************************)
(* Creations and fetches only: every project is as createProject stored    *)
(* it.                                                                     *)
(***************************************************************************)
RoundTripDtos ==
  { [client_id |-> Some("u1"), title |-> Some(t), description |-> Some(d),
     category |-> Some(c), budget |-> Some(b)] :
      t \in {<<" ", "a", " ">>, <<"a", " ", "b">>, <<"a">>, <<" ", " ", "b", "a">>},
      d \in {<<"d", " ">>, <<" ", " ", "e">>},
      c \in {<<" ", "c">>, <<"c", "c", " ">>},
      b \in {0, 250, 1000} }
    \cup { CreateBody("u3", 0), CreateBody("u9", 0) }

RoundTripNext ==
  \/ \E projectData \in RoundTripDtos : CreateProjectCall(projectData)
  \/ \E id \in ServiceIds : GetProjectByIdCall(id)

RoundTripSpec == Init /\ [][RoundTripNext]_vars

(***************************************************************************)
(* PUT /projects/:id with a body that carries keys other than those of     *)
(* UpdateProjectDTO: the handler passes req.body to the service as it is,  *)
(* and the service copies every key of it into the update.                 *)
(***************************************************************************)
AnyKeyBodies ==
  { [client_id |-> Some("u2")],
    [client_id |-> Some("u2"), title |-> Some(<<" ", "b">>)],
    [created_at |-> Some(9)],
    [title |-> Some(<<" ", "b">>)],
    [status |-> Some(IN_PROGRESS)],
    [status |-> Some(PENDING), client_id |-> Some("u1")] }

AnyKeyNext ==
  \/ \E body \in {CreateBody("u1", 0), CreateBody("u3", 0)} : CreateProjectRequest(body)
  \/ \E id \in RequestIds : GetProjectByIdRequest(id)
  \/ \E id \in RequestIds, body \in AnyKeyBodies, principal \in Principals :
        UpdateProjectRequest(id, body, principal)

AnyKeySpec == Init /\ [][AnyKeyNext]_vars

(***************************************************************************)
(* Properties.  resp is the outcome of the last request with the request   *)
(* itself: resp.before is the table just before the request's last step,   *)
(* resp.seen the row its fetch found, resp.called the arguments of the     *)
(* handler's call of the service, if it made one.                          *)
(***************************************************************************)
ProjectNow == single(selectById(projects, resp.id))
ProjectBefore == single(selectById(resp.before, resp.id))

\* The caller passes the ownership check: no clientId, or the owner's.
CallerMayMutate == ~truthyId(resp.clientId) \/ resp.clientId[1] = resp.seen[1].client_id

OnlyPendingMessage == <<"Can only delete projects that are still pending">>

C1_Requested ==
  /\ resp.layer = "service"
  /\ resp.op = "updateProject"
  /\ resp.seen # undefined
  /\ CallerMayMutate
  /\ truthyId(Get(resp.body, "status"))
  /\ resp.body.status[1] # resp.seen[1].status

\* C1: a call of updateProject that passes the ownership check and asks for a
\* status t other than the current status s persists t when t is in
\* PROJECT_STATUS_TRANSITIONS[s]; otherwise it throws 'Invalid status transition
\* from s to t', which the handler answers with 400, and the table is unchanged.
C1_StatusUpdateFollowsTable ==
  C1_Requested =>
    LET s == resp.seen[1].status
        t == resp.body.status[1]
    IN  IF t \in PROJECT_STATUS_TRANSITIONS[s]
        THEN /\ resp.kind = "return"
             /\ resp.data # null
             /\ resp.data[1].status = t
             /\ ProjectNow.status = t
        ELSE /\ resp.kind = "throw"
             /\ resp.msg = <<"Invalid status transition from", s, "to", t>>
             /\ updateProjectCatch(resp.msg, projects).kind = "json"
             /\ updateProjectCatch(resp.msg, projects).code = 400
             /\ projects = resp.before

C1_Witness ==
  /\ C1_Requested
  /\ resp.seen[1].status = IN_PROGRESS
  /\ resp.body.status[1] = PENDING
  /\ resp.kind = "throw"

C3_Wrote ==
  /\ resp.layer = "service"
  /\ resp.op \in {"updateProject", "deleteProject"}
  /\ resp.kind = "return"
  /\ resp.seen # undefined

C3_Target == IF resp.op = "deleteProject" THEN CANCELLED ELSE resp.body.status[1]

\* C3: with the fetch-and-check step and the write step of two calls
\* interleaved, every write is one whose check passed on the row it fetched,
\* and the stored status changes along an edge that is not in the table only
\* when the fetched status was stale; such a write does happen, out of a
\* terminal status.
C3_StaleCheckThenWrite ==
  C3_Wrote =>
    LET seen == resp.seen[1].status
        before == ProjectBefore.status
        now == ProjectNow.status
    IN  /\ now = C3_Target
        /\ IF resp.op = "deleteProject"
           THEN seen = PENDING
           ELSE now = seen \/ now \in PROJECT_STATUS_TRANSITIONS[seen]
        /\ (now # before /\ now \notin PROJECT_STATUS_TRANSITIONS[before])
             => seen # before

C3_Witness ==
  /\ C3_Wrote
  /\ ProjectBefore.status \in {COMPLETED, CANCELLED}
  /\ ProjectNow.status # ProjectBefore.status

CreateBodyPasses(body) ==
  /\ truthyId(Get(body, "client_id"))
  /\ truthyText(Get(body, "title"))
  /\ truthyText(Get(body, "description"))
  /\ truthyText(Get(body, "category"))
  /\ Get(body, "budget") # undefined
  /\ body.budget[1] >= 0

\* C4: POST /projects inserts nothing when client_id names no user (404 'User
\* not found') or a freelancer (403 'Only clients can create projects'); the only
\* change it ever makes is to append one row whose client_id is the body's and
\* names a user that is not a freelancer.
C4_OnlyClientsCreate ==
  (resp.layer = "http" /\ resp.op = "createProject") =>
    /\ (CreateBodyPasses(resp.body) /\ resp.body.client_id[1] \notin UserIds)
         => /\ resp.kind = "json"
            /\ resp.code = 404
            /\ resp.msg = <<"User not found">>
            /\ projects = resp.before
    /\ (/\ CreateBodyPasses(resp.body)
        /\ \E u \in users : u.id = resp.body.client_id[1] /\ u.is_freelancer)
         => /\ resp.kind = "json"
            /\ resp.code = 403
            /\ resp.msg = <<"Only clients can create projects">>
            /\ projects = resp.before
    /\ projects # resp.before
         => /\ resp.code = 201
            /\ projects = Append(resp.before, resp.data[1])
            /\ resp.data[1].client_id = resp.body.client_id[1]
            /\ \E u \in users : u.id = resp.data[1].client_id /\ ~u.is_freelancer

C4_Witness ==
  /\ resp.layer = "http"
  /\ resp.op = "createProject"
  /\ CreateBodyPasses(resp.body)
  /\ resp.body.client_id = Some("u3")
  /\ resp.code = 403

C5_Requested ==
  /\ resp.layer = "service"
  /\ resp.op = "deleteProject"
  /\ resp.seen # undefined
  /\ CallerMayMutate
  /\ resp.seen[1].status # PENDING

\* C5: a call of deleteProject that passes the ownership check, on a project
\* whose status is not pending, throws 'Can only delete projects that are still
\* pending', which the handler answers with 400, and the table is unchanged.
C5_DeleteNeedsPending ==
  C5_Requested =>
    /\ resp.kind = "throw"
    /\ resp.msg = OnlyPendingMessage
    /\ deleteProjectCatch(resp.msg, projects).kind = "json"
    /\ deleteProjectCatch(resp.msg, projects).code = 400
    /\ projects = resp.before

C5_Witness == C5_Requested /\ resp.seen[1].status = IN_PROGRESS /\ resp.kind = "throw"

C6_First ==
  (/\ resp.layer = "service"
   /\ resp.op = "deleteProject"
   /\ resp.seen # undefined
   /\ CallerMayMutate
   /\ resp.seen[1].status = PENDING)
    => /\ resp.kind = "return"
       /\ resp.data = Some(TRUE)
       /\ ProjectNow.status = CANCELLED

C6_Deleted ==
  /\ resp.layer = "service"
  /\ resp.op = "deleteProject"
  /\ resp.kind = "return"
  /\ resp.data = Some(TRUE)

\* C6: a call of deleteProject that passes the ownership check, on a pending
\* project, returns true and leaves the project cancelled; a second such call
\* right after it throws the only-pending error and leaves the table as it was,
\* the project still cancelled.
C6_DeleteThenDelete ==
  [][/\ C6_First'
     /\ (C6_Deleted /\ resp'.op = "deleteProject" /\ resp'.id = resp.id /\ CallerMayMutate')
          => /\ resp'.kind = "throw"
             /\ resp'.msg = OnlyPendingMessage
             /\ projects' = projects
             /\ ProjectNow'.status = CANCELLED]_vars

C6_Witness ==
  /\ resp.layer = "service"
  /\ resp.op = "deleteProject"
  /\ resp.seen # undefined
  /\ CallerMayMutate
  /\ resp.seen[1].status = CANCELLED
  /\ resp.kind = "throw"
  /\ resp.msg = OnlyPendingMessage

\* C7: a PUT /projects/:id or DELETE /projects/:id sent by a principal other
\* than the project's client_id changes nothing in the projects table.
C7_OnlyOwnerMutates ==
  (/\ resp.layer = "http"
   /\ resp.op \in {"updateProject", "deleteProject"}
   /\ resp.seen # undefined
   /\ resp.principal # resp.seen[1].client_id)
    => projects = resp.before

C8_Requested ==
  /\ resp.layer = "service"
  /\ resp.op \in {"updateProject", "deleteProject"}
  /\ resp.seen # undefined
  /\ truthyId(resp.clientId)
  /\ resp.clientId[1] # resp.seen[1].client_id

\* C8: a call of updateProject or deleteProject with a clientId other than the
\* project's client_id throws the Unauthorized error, which the handler answers
\* with 403, and the table is unchanged, whatever the patch and the status.
C8_OtherClientUnauthorized ==
  C8_Requested =>
    /\ resp.kind = "throw"
    /\ IF resp.op = "updateProject"
       THEN /\ resp.msg = <<"Unauthorized: You can only update your own projects">>
            /\ updateProjectCatch(resp.msg, projects).code = 403
       ELSE /\ resp.msg = <<"Unauthorized: You can only delete your own projects">>
            /\ deleteProjectCatch(resp.msg, projects).code = 403
    /\ projects = resp.before

C8_Witness ==
  /\ C8_Requested
  /\ resp.op = "updateProject"
  /\ resp.seen[1].status = COMPLETED
  /\ Get(resp.body, "status") = Some(PENDING)
  /\ resp.kind = "throw"

\* C9: a PUT /projects/:id that asks for another status of a project whose
\* stored status is no key of the transition table is answered with the
\* invalid-transition error (400) and changes nothing.
C9_UnknownStatusIsEmptySet ==
  (/\ resp.layer = "http"
   /\ resp.op = "updateProject"
   /\ resp.seen # undefined
   /\ resp.seen[1].status \notin DOMAIN PROJECT_STATUS_TRANSITIONS
   /\ truthyId(Get(resp.body, "status"))
   /\ resp.body.status[1] \in ProjectStatus
   /\ ~(Get(resp.body, "budget") # undefined /\ resp.body.budget[1] < 0))
    => /\ resp.kind = "json"
       /\ resp.code = 400
       /\ resp.msg = <<"Invalid status transition from", resp.seen[1].status,
                       "to", resp.body.status[1]>>
       /\ projects = resp.before

\* C10: a PUT /contracts/:id/status that names a settable escrow_status and
\* whose user_id is neither the contract's freelancer_id nor its client_id is
\* answered with 403 and leaves the contracts table unchanged.
C10_StrangerGets403 ==
  (/\ resp.layer = "http"
   /\ resp.op = "updateContractStatus"
   /\ resp.seen # undefined
   /\ truthyId(Get(resp.body, "escrow_status"))
   /\ resp.body.escrow_status[1] \in ACTIVE_ESCROW_STATUSES
   /\ Get(resp.body, "user_id")
        \notin {Some(resp.seen[1].freelancer_id), Some(resp.seen[1].client_id)})
    => /\ resp.kind = "json"
       /\ resp.code = 403
       /\ contracts = resp.before

\* The body passes the validation of createContractHandler.
ContractBodyPasses(body) ==
  /\ truthyId(Get(body, "contract_type"))
  /\ truthyId(Get(body, "freelancer_id"))
  /\ truthyId(Get(body, "client_id"))
  /\ truthyText(Get(body, "contract_on_chain_id"))
  /\ Get(body, "amount_locked") # undefined
  /\ body.contract_type[1] \in CONTRACT_TYPES
  /\ body.amount_locked[1] > 0
  /\ Len(trim(body.contract_on_chain_id[1])) > 0

\* C11: a POST /contracts whose body passes the handler's validation, names two
\* different users and whose freelancer_id or client_id is no user's id is
\* answered 404 'Freelancer or client not found', and no contract is inserted.
C11_UnknownUserIs404 ==
  (/\ resp.layer = "http"
   /\ resp.op = "createContract"
   /\ ContractBodyPasses(resp.body)
   /\ resp.body.freelancer_id[1] # resp.body.client_id[1]
   /\ ~({resp.body.freelancer_id[1], resp.body.client_id[1]} \subseteq UserIds))
    => /\ resp.kind = "json"
       /\ resp.code = HTTP_STATUS.NOT_FOUND
       /\ resp.msg = <<"Freelancer or client not found">>
       /\ contracts = resp.before

C12_Requested == resp.layer = "http" /\ resp.op = "updateContractStatus"

\* C12: a PUT /contracts/:id/status whose id is not a UUID, or whose body has no
\* escrow_status or one that is not funded, released or disputed, is answered
\* 400 without a call of contractService.updateContractStatus and changes no
\* contract; so the service is only ever called with one of those three
\* targets, never with pending.
C12_OnlySettableTargetsReachService ==
  C12_Requested =>
    /\ (\/ ~uuidRegexTest(resp.id)
        \/ Get(resp.body, "escrow_status") = undefined
        \/ resp.body.escrow_status[1] \notin {"funded", "released", "disputed"})
         => /\ resp.kind = "json"
            /\ resp.code = 400
            /\ resp.called = undefined
            /\ contracts = resp.before
    /\ resp.called # undefined
         => /\ resp.called[1][2].escrow_status[1] \in {"funded", "released", "disputed"}
            /\ resp.called[1][2].escrow_status[1] # "pending"
            /\ uuidRegexTest(resp.called[1][1])

C12_Witness ==
  /\ C12_Requested
  /\ resp.seen # undefined
  /\ resp.seen[1].escrow_status = "funded"
  /\ Get(resp.body, "escrow_status") = Some("pending")
  /\ Get(resp.body, "user_id") = Some(resp.seen[1].client_id)
  /\ resp.code = 400

ContractNow == single(selectById(contracts, resp.id))

\* C13: a PUT /contracts/:id/status by a participant of a contract that is
\* pending, funded or released, asking for another escrow_status, sets it when
\* the step is pending -> funded or disputed, or funded -> released or disputed;
\* any other step is answered with the invalid-transition error (400) and
\* leaves the escrow_status as it was.
C13_EscrowFollowsTable ==
  (/\ C12_Requested
   /\ resp.called # undefined
   /\ resp.seen # undefined
   /\ resp.seen[1].escrow_status \in {"pending", "funded", "released"}
   /\ Get(resp.body, "user_id")
        \in {Some(resp.seen[1].freelancer_id), Some(resp.seen[1].client_id)}
   /\ resp.body.escrow_status[1] # resp.seen[1].escrow_status)
    => LET s == resp.seen[1].escrow_status
           t == resp.body.escrow_status[1]
       IN  IF \/ s = "pending" /\ t \in {"funded", "disputed"}
              \/ s = "funded" /\ t \in {"released", "disputed"}
           THEN /\ resp.kind = "json"
                /\ resp.code = 200
                /\ ContractNow.escrow_status = t
           ELSE /\ resp.kind = "json"
                /\ resp.code = 400
                /\ ContractNow.escrow_status = s

\* C14: every request a handler has finished with ended in one JSON response
\* or in the failure being forwarded to next; an Error thrown by the service is
\* never left without either.
C14_EveryRequestAnswered ==
  resp.layer = "http" =>
    /\ resp.kind \in {"json", "next"}
    /\ resp.kind = "json" => resp.code \in {200, 201, 400, 403, 404}

C15_Requested == resp.layer = "http" /\ resp.op = "getAllProjects"

C15_Page ==
  IF truthyText(Get(resp.body, "page")) THEN parseInt(resp.body.page[1]) ELSE Num(1)

C15_Limit ==
  IF truthyText(Get(resp.body, "limit")) THEN parseInt(resp.body.limit[1]) ELSE Num(10)

\* C15: a GET /projects whose parsed page is less than 1, or whose parsed limit
\* is less than 1 or greater than 50, is answered 400 without a call of
\* getAllProjects; so the service is only called with page >= 1 and
\* 1 <= limit <= 50, and the offset (page - 1) * limit is never negative.
C15_PaginationValidated ==
  C15_Requested =>
    /\ (\/ NumLess(C15_Page, Num(1))
        \/ NumLess(C15_Limit, Num(1))
        \/ NumLess(Num(50), C15_Limit))
         => /\ resp.kind = "json"
            /\ resp.code = 400
            /\ resp.called = undefined
    /\ resp.called # undefined
         => LET page == resp.called[1][1].page[1]
                limit == resp.called[1][1].limit[1]
            IN  /\ ~NumLess(page, Num(1))
                /\ ~NumLess(limit, Num(1))
                /\ ~NumLess(Num(50), limit)
                /\ ~NumLess(NumMul(NumSub(page, Num(1)), limit), Num(0))

C16_NegativeBudget ==
  /\ resp.layer = "http"
  /\ resp.op \in {"createProject", "updateProject"}
  /\ Get(resp.body, "budget") # undefined
  /\ resp.body.budget[1] < 0

\* C16: under POST /projects and PUT /projects/:id with numeric budgets, every
\* stored project has budget >= 0; a create or an update whose body carries a
\* negative budget is answered 400 before any call of the service and changes
\* no project.
C16_BudgetNeverNegative ==
  /\ \A i \in DOMAIN projects : projects[i].budget >= 0
  /\ C16_NegativeBudget
       => /\ resp.kind = "json"
          /\ resp.code = 400
          /\ resp.called = undefined
          /\ projects = resp.before

C16_Witness ==
  /\ C16_NegativeBudget
  /\ resp.op = "updateProject"
  /\ resp.seen # undefined
  /\ resp.seen[1].budget >= 0
  /\ resp.msg = <<"Budget must be a positive number">>

C17_Called ==
  /\ resp.layer = "service"
  /\ resp.op = "getAllProjects"

\* The stored projects that satisfy every filter the call supplies.
C17_Matching ==
  { r \in { resp.before[i] : i \in DOMAIN resp.before } :
      /\ Get(resp.body, "budget_min") # undefined => r.budget >= resp.body.budget_min[1].n
      /\ Get(resp.body, "budget_max") # undefined => r.budget <= resp.body.budget_max[1].n
      /\ Get(resp.body, "status") # undefined => r.status = resp.body.status[1]
      /\ Get(resp.body, "category") # undefined => contains(r.category, resp.body.category[1]) }

C17_PageNumber == IF Get(resp.body, "page") = undefined THEN 1 ELSE resp.body.page[1].n
C17_PageSize == IF Get(resp.body, "limit") = undefined THEN 10 ELSE resp.body.limit[1].n

\* C17: getAllProjects called with page >= 1 and limit >= 1 (or their defaults
\* 1 and 10) returns as total the number of stored projects that satisfy all
\* supplied filters, whatever page and limit are, and as projects the
\* matching projects at positions (page-1)*limit+1 .. page*limit of their
\* newest-first order: the k-th returned project has exactly
\* (page-1)*limit + k - 1 matching projects newer than it.
C17_ListIsSliceOfFiltered ==
  C17_Called =>
    LET skipped == (C17_PageNumber - 1) * C17_PageSize
        rest == Cardinality(C17_Matching) - skipped
        size == IF rest < 0 THEN 0 ELSE IF rest > C17_PageSize THEN C17_PageSize ELSE rest
        result == resp.data[1]
    IN  /\ resp.kind = "return"
        /\ result.total = Cardinality(C17_Matching)
        /\ Len(result.projects) = size
        /\ \A k \in 1..size :
              /\ result.projects[k] \in C17_Matching
              /\ Cardinality({ r \in C17_Matching :
                                 r.created_at > result.projects[k].created_at })
                   = skipped + k - 1
        /\ projects = resp.before

C17_Witness ==
  /\ C17_Called
  /\ Get(resp.body, "page") = Some(Num(2))
  /\ Get(resp.body, "limit") = Some(Num(1))
  /\ Get(resp.body, "budget_min") = Some(Num(100))
  /\ Get(resp.body, "budget_max") = Some(Num(500))
  /\ resp.data[1].total = 2
  /\ Len(resp.before) = 3
  /\ Len(resp.data[1].projects) = 1
  /\ resp.data[1].projects[1].budget = 100

\* t is s without its leading and trailing spaces.
IsTrimOf(t, s) ==
  /\ t = <<>> \/ (t[1] # " " /\ t[Len(t)] # " ")
  /\ \E i \in 0..Len(s) :
        /\ i + Len(t) <= Len(s)
        /\ SubSeq(s, i + 1, i + Len(t)) = t
        /\ \A j \in DOMAIN s : (j <= i \/ j > i + Len(t)) => s[j] = " "

\* C18: a getProjectById of the project that the createProject just before it
\* returned gives title, description and category equal to the submitted
\* values without their leading and trailing spaces, the submitted budget, and
\* status pending.
C18_CreateThenFetch ==
  [][(/\ resp.layer = "service"
      /\ resp.op = "createProject"
      /\ resp.kind = "return"
      /\ resp'.op = "getProjectById"
      /\ resp'.id = resp.data[1].id)
       => /\ resp'.data # null
          /\ IsTrimOf(resp'.data[1].title, resp.body.title[1])
          /\ IsTrimOf(resp'.data[1].description, resp.body.description[1])
          /\ IsTrimOf(resp'.data[1].category, resp.body.category[1])
          /\ resp'.data[1].budget = resp.body.budget[1]
          /\ resp'.data[1].status = PENDING]_vars

C18_Witness ==
  /\ resp.layer = "service"
  /\ resp.op = "getProjectById"
  /\ resp.data # null
  /\ resp.data[1].title = <<"a", " ", "b">>
  /\ resp.data[1].description = <<"d">>
  /\ resp.data[1].category = <<"c">>
  /\ resp.data[1].budget = 250
  /\ resp.data[1].status = PENDING

C19_Updated ==
  /\ resp.layer = "service"
  /\ resp.op = "updateProject"
  /\ resp.kind = "return"
  /\ resp.data # null

\* C19: after a successful updateProject, each of title, description,
\* category, budget and status that the patch carries with a value other than
\* undefined holds the patch's value, the three strings without their leading
\* and trailing spaces; every other column of the project, and every other
\* project, is as before, and the returned project is the stored one.
C19_PatchWritesPresentFields ==
  C19_Updated =>
    /\ \A f \in DOMAIN ProjectBefore :
          IF Get(resp.body, f) # undefined
          THEN IF f \in {"title", "description", "category"}
               THEN IsTrimOf(ProjectNow[f], resp.body[f][1])
               ELSE ProjectNow[f] = resp.body[f][1]
          ELSE ProjectNow[f] = ProjectBefore[f]
    /\ \A i \in DOMAIN projects :
          projects[i].id # resp.id => projects[i] = resp.before[i]
    /\ DOMAIN projects = DOMAIN resp.before
    /\ resp.data[1] = ProjectNow

C19_Witness ==
  /\ C19_Updated
  /\ resp.body = [status |-> Some(IN_PROGRESS), title |-> Some(<<" ", "b">>)]
  /\ ProjectBefore.title = <<"a">>
  /\ ProjectBefore.status = PENDING
  /\ ProjectNow.title = <<"b">>
  /\ ProjectNow.status = IN_PROGRESS

C20_Deleted ==
  /\ resp.layer = "service"
  /\ resp.op = "deleteProject"
  /\ resp.kind = "return"
  /\ resp.data = Some(TRUE)

\* C20: no operation of the service removes a project: the ids stored before
\* an operation are stored after it; and after a successful deleteProject,
\* getProjectById still returns the project, with status cancelled.
C20_DeleteKeepsRow ==
  /\ { resp.before[i].id : i \in DOMAIN resp.before }
       \subseteq { projects[i].id : i \in DOMAIN projects }
  /\ C20_Deleted
       => /\ getProjectById(projects, resp.id).value # null
          /\ getProjectById(projects, resp.id).value[1].id = resp.id
          /\ getProjectById(projects, resp.id).value[1].status = CANCELLED

C20_Witness ==
  /\ C20_Deleted
  /\ resp.seen # undefined
  /\ resp.seen[1].status = PENDING
  /\ Len(projects) = Len(resp.before)
  /\ ProjectNow.status = CANCELLED

C21_Requested ==
  /\ resp.layer = "service"
  /\ resp.op = "updateProject"
  /\ resp.seen # undefined
  /\ CallerMayMutate
  /\ \/ Get(resp.body, "status") = undefined
     \/ resp.body.status[1] = resp.seen[1].status

\* C21: a call of updateProject that passes the ownership check, with a patch
\* that carries no status or the project's current status, succeeds whatever
\* that status is, completed and cancelled included: the status stays as it
\* was and the title, description, category and budget of the patch are
\* stored.
C21_EditsWithoutStatusChange ==
  C21_Requested =>
    /\ resp.kind = "return"
    /\ resp.data # null
    /\ ProjectNow.status = resp.seen[1].status
    /\ \A f \in {"title", "description", "category"} :
          Get(resp.body, f) # undefined => IsTrimOf(ProjectNow[f], resp.body[f][1])
    /\ Get(resp.body, "budget") # undefined => ProjectNow.budget = resp.body.budget[1]

C21_Witness ==
  /\ C21_Requested
  /\ resp.seen[1].status = COMPLETED
  /\ resp.body = [status |-> Some(COMPLETED), title |-> Some(<<" ", "b">>)]
  /\ ProjectBefore.title = <<"a">>
  /\ ProjectNow.title = <<"b">>
  /\ ProjectNow.status = COMPLETED

C22_Requested ==
  /\ resp.layer = "service"
  /\ resp.op \in {"updateProject", "deleteProject"}

\* C22: updateProject and deleteProject check existence, then ownership, then
\* the status.  For an id that no project has they return the not-found
\* sentinel (null, false), which the handlers answer with 404, whatever the
\* patch and the clientId; for an existing project and a clientId other than
\* its owner's they throw Unauthorized, whatever the requested status and the
\* current one; only then does a status error occur.  Nothing is written in
\* any of these cases.
C22_ChecksInOrder ==
  C22_Requested =>
    /\ resp.seen = undefined
         => /\ resp.kind = "return"
            /\ IF resp.op = "updateProject"
               THEN /\ resp.data = null
                    /\ updateProjectHandler(resp.before, resp.id, resp.body).code = 404
               ELSE /\ resp.data = Some(FALSE)
                    /\ deleteProjectHandler(resp.before, resp.id).code = 404
            /\ projects = resp.before
    /\ (resp.seen # undefined /\ ~CallerMayMutate)
         => /\ resp.kind = "throw"
            /\ resp.msg = IF resp.op = "updateProject"
                          THEN <<"Unauthorized: You can only update your own projects">>
                          ELSE <<"Unauthorized: You can only delete your own projects">>
            /\ projects = resp.before
    /\ (resp.kind = "throw" /\ resp.msg[1] \in {"Invalid status transition from",
                                                 OnlyPendingMessage[1]})
         => resp.seen # undefined /\ CallerMayMutate

C22_Witness ==
  /\ C22_Requested
  /\ resp.op = "deleteProject"
  /\ resp.seen # undefined
  /\ resp.seen[1].status = CANCELLED
  /\ resp.clientId = Some("u2")
  /\ resp.msg = <<"Unauthorized: You can only delete your own projects">>

\* C23: a PUT /projects/:id leaves the id, the client_id and the created_at of
\* every project as they were, whatever keys its body carries.
C23_IdentityColumnsKept ==
  (resp.layer = "http" /\ resp.op = "updateProject") =>
    /\ DOMAIN projects = DOMAIN resp.before
    /\ \A i \in DOMAIN projects :
          /\ projects[i].id = resp.before[i].id
          /\ projects[i].client_id = resp.before[i].client_id
          /\ projects[i].created_at = resp.before[i].created_at

\* The stage of a status in the life of a project.
Stage(status) ==
  CASE status = PENDING -> 1
    [] status = IN_PROGRESS -> 2
    [] status \in {COMPLETED, CANCELLED} -> 3

====
